---- MODULE Spec2Model ----
(***************************************************************************)
(* Model of the Cobolt 06-01 MLD laser adapter (class Laser) together with *)
(* the serial transport and the device it talks to.  Every method is an    *)
(* action that advances its own stack frame one step at a time; _send is   *)
(* the only place that touches the transport.                              *)
(*                                                                         *)
(* Python floats are fixed-point integers: the float x is stored as        *)
(* x * 10^5, so that 1.00004 mW is exact.                                 *)
(***************************************************************************)
EXTENDS Integers, Sequences, FiniteSets, TLC

VARIABLES
    port,          \* self.port: "none" (never opened), "open", "closed"
    verbose,       \* self.verbose
    very_verbose,  \* self.very_verbose
    w,             \* self.w
    max_power_mW,  \* self.max_power_mW (0 until __init__ has parsed it)
    stack,         \* Python call stack, innermost frame first
    ret,           \* value handed from a returning callee to its caller
    call,          \* the public call in progress, or the last one finished
    prev,          \* what is remembered of the public call before `call`
    log,           \* transactions of `call`: <<[cmd, resp]>> in wire order
    rx,            \* lines buffered in the transport, not yet read
    dev,           \* the laser head: what the device itself stores
    dev0           \* dev as it was when `call` started

vars == <<port, verbose, very_verbose, w, max_power_mW, stack, ret, call,
          prev, log, rx, dev, dev0>>

(***************************************************************************)
(* Bounds and fixed-point scale                                            *)
(***************************************************************************)
\* fixed-point: a Python float x is the integer x * Scale
Scale == 10^5

\* the absent optional argument / absent value
None == -1

(***************************************************************************)
(* Python values and wire text share one record shape.  k is the kind:     *)
(* "None", "int", "float" (n in fixed point), "str" (s the text); and for  *)
(* text that crossed the wire "tok" (a literal token s), "num" (the        *)
(* decimal literal n * 10^-d) and "mn" (a model number).                   *)
(***************************************************************************)
NoneV == [k |-> "None", s |-> "", n |-> 0, d |-> 0]
IntV(i) == [k |-> "int", s |-> "", n |-> i, d |-> 0]
FloatV(x) == [k |-> "float", s |-> "", n |-> x, d |-> 0]
StrV(str) == [k |-> "str", s |-> str, n |-> 0, d |-> 0]

Tok(str) == [k |-> "tok", s |-> str, n |-> 0, d |-> 0]
Num(i, dec) == [k |-> "num", s |-> "", n |-> i, d |-> dec]
\* the model number "<wl>-06-01-<pw>"; pw = None when the text has fewer
\* than four fields, wl = None when the first field is not a number
ModelNo(wl, pw) == [k |-> "mn", s |-> "", n |-> wl, d |-> pw]
OK == Tok("OK")
ERR == Tok("Syntax error: illegal command")
Pending == Tok("")

\* a command: mnemonic and optional decimal argument i * 10^-dec
Cmd(name) == [name |-> name, n |-> 0, d |-> None]
CmdArg(name, i, dec) == [name |-> name, n |-> i, d |-> dec]

\* int(text): defined for integer literals only
IsInt(r) == r.k = "num" /\ r.d = 0
\* float(text): defined for any decimal literal; value in fixed point
IsFloat(r) == r.k = "num"
FloatOf(r) == r.n * 10^(5 - r.d)

\* x / q rounded half to even, q > 0 and x >= 0
RoundDiv(x, q) ==
    LET lo == x \div q
        rm == x % q
    IN IF 2 * rm < q THEN lo
       ELSE IF 2 * rm > q THEN lo + 1
       ELSE IF lo % 2 = 0 THEN lo ELSE lo + 1

\* '%0.<dec>f' % (x / den) : the digits i of the printed decimal i * 10^-dec
Fmt(x, den, dec) == RoundDiv(x, den * 10^(5 - dec))
\* round(x, 4)
Round4(x) == RoundDiv(x, 10) * 10

(***************************************************************************)
(* The device.  It stores the emission flag, the two modulation flags and  *)
(* the two set points exactly as they were written: p in units of 10^-4 W  *)
(* (the digits of 'p %0.4f'), lmp in units of 10^-1 mW (the digits of      *)
(* 'slmp %0.1f').                                                          *)
(***************************************************************************)
DevInit == [emission |-> 0, dmes |-> 1, ames |-> 0, p |-> 20, lmp |-> 20]

\* the identity the device reports to 'glm?'
DeviceWavelength == 785
DeviceMaxPower == 2

\* state codes 'gom?' may report: Off while not emitting (get_state's
\* docstring); while emitting Continuous, one of the two modulation states,
\* or Fault (get_on_off_state's note: still "ON" in certain fault states)
GomCodes(d) == IF d.emission = 0 THEN {0, 1, 6} ELSE {2, 3, 4, 5}

\* a code outside every known set
BadCode == 7

\* bytes without a terminator, and the line they garble once the next
\* response is appended to them
Stray == Tok("?")
Garbled == Tok("?...")

\* a command that changes the device: applied and acknowledged,
\* acknowledged but not applied, or rejected with an error text
Acks(d, applied) ==
    {[dev |-> applied, line |-> OK],
     [dev |-> d, line |-> OK],
     [dev |-> d, line |-> ERR]}

\* a query: one of the truthful answers, or an answer outside the known set
Answers(d, truth, junk) ==
    {[dev |-> d, line |-> r] : r \in truth \cup {junk}}

\* what the device does with one command line: the state it ends in and the
\* response line it sends
Normal(c, d) ==
    CASE c.name = "l?"     -> Answers(d, {Num(d.emission, 0)}, Num(BadCode, 0))
      [] c.name = "l1"     -> Acks(d, [d EXCEPT !.emission = 1])
      [] c.name = "l0"     -> Acks(d, [d EXCEPT !.emission = 0])
      [] c.name = "@cob1"  -> Acks(d, [d EXCEPT !.emission = 1])
      [] c.name = "gom?"   -> Answers(d, {Num(g, 0) : g \in GomCodes(d)},
                                      Num(BadCode, 0))
      [] c.name = "cp"     -> Acks(d, d)
      [] c.name = "em"     -> Acks(d, d)
      [] c.name = "gdmes?" -> Answers(d, {Num(d.dmes, 0)}, Num(BadCode, 0))
      [] c.name = "sdmes"  -> Acks(d, [d EXCEPT !.dmes = c.n])
      [] c.name = "games?" -> Answers(d, {Num(d.ames, 0)}, Num(BadCode, 0))
      [] c.name = "sames"  -> Acks(d, [d EXCEPT !.ames = c.n])
      [] c.name = "p?"     -> Answers(d, {Num(d.p, 4)}, ERR)
      [] c.name = "p"      -> Acks(d, [d EXCEPT !.p = c.n])
      [] c.name = "glmp?"  -> Answers(d, {Num(d.lmp, 1)}, ERR)
      [] c.name = "slmp"   -> Acks(d, [d EXCEPT !.lmp = c.n])
      [] c.name = "f?"     -> Answers(d, {Num(f, 0) : f \in {0, 1, 3, 4}},
                                      Num(BadCode, 0))
      [] c.name = "ilk?"   -> Answers(d, {Num(0, 0), Num(1, 0)},
                                      Num(BadCode, 0))
      [] c.name = "glm?"   -> Answers(d,
                                {ModelNo(DeviceWavelength, DeviceMaxPower),
                                 ModelNo(DeviceWavelength, None)},
                                ERR)
      [] OTHER             -> {[dev |-> d, line |-> ERR]}

\* the response line as it lands in the transport: appended to stray bytes
\* it becomes part of a garbled line
Land(buf, line) ==
    IF buf /= <<>> /\ buf[Len(buf)] = Stray
    THEN SubSeq(buf, 1, Len(buf) - 1) \o <<Garbled>>
    ELSE buf \o <<line>>

\* besides the normal exchange the device may stay silent, or send stray
\* bytes after its answer
Replies(c, d, buf) ==
    {[dev |-> o.dev, rx |-> Land(buf, o.line)] : o \in Normal(c, d)}
      \cup {[dev |-> o.dev, rx |-> Land(buf, o.line) \o <<Stray>>] :
               o \in Normal(c, d)}
      \cup {[dev |-> d, rx |-> buf]}

(***************************************************************************)
(* Call stack plumbing                                                     *)
(***************************************************************************)
NoArgs == [mode |-> "", power_mW |-> 0, digital_mod_enabled |-> None,
           analog_mod_enabled |-> None, enabled |-> None, cmd |-> Cmd("")]

Frame(fn, arg) == [fn |-> fn, pc |-> 0, arg |-> arg]
Top == Head(stack)
Running(fn) == stack /= <<>> /\ Top.fn = fn

\* the frame on top calls fn(arg) and resumes at pc
Call(fn, arg, pc) ==
    /\ stack' = <<Frame(fn, arg), [Top EXCEPT !.pc = pc]>> \o Tail(stack)
    /\ UNCHANGED <<ret, call, log, rx, dev>>

\* the public call is over once its own frame returns
Returned(v) ==
    IF Len(stack) = 1 THEN [call EXCEPT !.status = "returned", !.value = v]
    ELSE call

\* nothing in the adapter catches: an exception ends the public call
Raised(exc, msg) == [call EXCEPT !.status = "raised", !.exc = exc, !.msg = msg]

\* the frame on top returns v
Return(v) ==
    /\ stack' = Tail(stack)
    /\ ret' = v
    /\ call' = Returned(v)
    /\ UNCHANGED <<log, rx, dev>>

\* the frame on top raises
Raise(exc, msg) ==
    /\ stack' = <<>>
    /\ ret' = NoneV
    /\ call' = Raised(exc, msg)
    /\ UNCHANGED <<log, rx, dev>>

Obj == <<verbose, very_verbose, w, max_power_mW>>

\* a method step that leaves the object and the port handle alone
Plain == UNCHANGED <<Obj, port, prev, dev0>>

(***************************************************************************)
(* _send: one write, one read up to the terminator, then the check that    *)
(* nothing is left in the transport.                                       *)
(***************************************************************************)
\* the frame on top calls self._send(cmd) and resumes at pc: the callee
\* runs up to its read, that is it writes the command, which the device
\* receives and answers into the transport
SendCall(cmd, pc) ==
    IF port /= "open"
    THEN Raise("PortNotOpenError", "write")
    ELSE /\ \E o \in Replies(cmd, dev, rx) :
                /\ dev' = o.dev
                /\ rx' = o.rx
         /\ log' = Append(log, [cmd |-> cmd, resp |-> Pending])
         /\ stack' = <<Frame("_send", [NoArgs EXCEPT !.cmd = cmd]),
                       [Top EXCEPT !.pc = pc]>> \o Tail(stack)
         /\ UNCHANGED <<ret, call>>

\* _send that hands the response back without looking at what is left in
\* the transport
_send_WithoutPendingCheck ==
    /\ Running("_send")
    /\ rx /= <<>> /\ Head(rx) /= Stray
    /\ rx' = Tail(rx)
    /\ log' = [log EXCEPT ![Len(log)].resp = Head(rx)]
    /\ stack' = Tail(stack)
    /\ ret' = Head(rx)
    /\ call' = call
    /\ UNCHANGED dev
    /\ Plain

\* response = self.port.read_until(expected=b'\r\n') blocks until a
\* terminated line is there; then assert self.port.in_waiting == 0
_send ==
    /\ Running("_send")
    /\ rx /= <<>> /\ Head(rx) /= Stray
    /\ rx' = Tail(rx)
    /\ log' = [log EXCEPT ![Len(log)].resp = Head(rx)]
    /\ IF Tail(rx) /= <<>>
       THEN /\ stack' = <<>>
            /\ ret' = NoneV
            /\ call' = Raised("AssertionError", "in_waiting")
       ELSE /\ stack' = Tail(stack)
            /\ ret' = Head(rx)
            /\ call' = call
    /\ UNCHANGED dev
    /\ Plain

(***************************************************************************)
(* Status queries                                                          *)
(***************************************************************************)
\* get_on_off_state that takes every code other than 0 for ON
get_on_off_state_TrustingCode ==
    /\ Running("get_on_off_state")
    /\ CASE Top.pc = 0 -> SendCall(Cmd("l?"), 1)
         [] OTHER ->
              IF ~IsInt(ret) THEN Raise("ValueError", "int()")
              ELSE Return(StrV(IF ret.n = 0 THEN "OFF" ELSE "ON"))
    /\ Plain

get_on_off_state ==
    /\ Running("get_on_off_state")
    /\ CASE Top.pc = 0 -> SendCall(Cmd("l?"), 1)
         [] OTHER ->
              IF ~IsInt(ret) THEN Raise("ValueError", "int()")
              ELSE IF ret.n \notin {0, 1} THEN Raise("AssertionError", "code")
              ELSE Return(StrV(IF ret.n = 0 THEN "OFF" ELSE "ON"))
    /\ Plain

is_interlock_open ==
    /\ Running("is_interlock_open")
    /\ CASE Top.pc = 0 -> SendCall(Cmd("ilk?"), 1)
         [] OTHER ->
              IF ~IsInt(ret) THEN Raise("ValueError", "int()")
              ELSE IF ret.n \notin {0, 1} THEN Raise("AssertionError", "is_open")
              ELSE IF very_verbose
              THEN \* one %d for the two values (self.w, is_open)
                   Raise("TypeError", "not all arguments converted")
              ELSE Return(IntV(ret.n))
    /\ Plain

StateName(code) ==
    CASE code = 0 -> "Off"
      [] code = 1 -> "Waiting for key"
      [] code = 2 -> "Continuous"
      [] code = 3 -> "On/Off Modulation"
      [] code = 4 -> "Modulation"
      [] code = 5 -> "Fault"
      [] code = 6 -> "Aborted"

get_state ==
    /\ Running("get_state")
    /\ CASE Top.pc = 0 -> SendCall(Cmd("gom?"), 1)
         [] OTHER ->
              IF ~IsInt(ret) THEN Raise("ValueError", "int()")
              ELSE IF ret.n \notin 0..6 THEN Raise("AssertionError", "code")
              ELSE IF very_verbose
              THEN \* the print names `mode`, which get_state never binds
                   Raise("NameError", "name 'mode' is not defined")
              ELSE Return(StrV(StateName(ret.n)))
    /\ Plain

get_digital_modulation_enable_state ==
    /\ Running("get_digital_modulation_enable_state")
    /\ CASE Top.pc = 0 -> SendCall(Cmd("gdmes?"), 1)
         [] OTHER ->
              IF ~IsInt(ret) THEN Raise("ValueError", "int()")
              ELSE IF ret.n \notin {0, 1} THEN Raise("AssertionError", "enabled")
              ELSE Return(IntV(ret.n))
    /\ Plain

get_analog_modulation_enable_state ==
    /\ Running("get_analog_modulation_enable_state")
    /\ CASE Top.pc = 0 -> SendCall(Cmd("games?"), 1)
         [] OTHER ->
              IF ~IsInt(ret) THEN Raise("ValueError", "int()")
              ELSE IF ret.n \notin {0, 1} THEN Raise("AssertionError", "enabled")
              ELSE Return(IntV(ret.n))
    /\ Plain

get_power_setpoint ==
    /\ Running("get_power_setpoint")
    /\ CASE Top.pc = 0 -> SendCall(Cmd("p?"), 1)
         [] OTHER ->
              IF ~IsFloat(ret) THEN Raise("ValueError", "float()")
              ELSE Return(FloatV(FloatOf(ret) * 1000)) \* convert from W
    /\ Plain

get_modulation_power_setpoint ==
    /\ Running("get_modulation_power_setpoint")
    /\ CASE Top.pc = 0 -> SendCall(Cmd("glmp?"), 1)
         [] OTHER ->
              IF ~IsFloat(ret) THEN Raise("ValueError", "float()")
              ELSE Return(FloatV(FloatOf(ret))) \* mW directly
    /\ Plain

get_model_number ==
    /\ Running("get_model_number")
    /\ CASE Top.pc = 0 -> SendCall(Cmd("glm?"), 1)
         [] OTHER -> Return(ret)
    /\ Plain

\* the fault dictionary of get_fault
FaultName(code) ==
    CASE code = 0 -> "no errors"
      [] code = 1 -> "temperature error"
      [] code = 3 -> "interlock error"
      [] code = 4 -> "constant power time out"

get_fault ==
    /\ Running("get_fault")
    /\ CASE Top.pc = 0 -> SendCall(Cmd("f?"), 1)
         [] OTHER ->
              IF ~(IsInt(ret) /\ ret.n \in {0, 1, 3, 4})
              THEN Raise("AssertionError", "code")
              ELSE Return(NoneV)
    /\ Plain

(***************************************************************************)
(* Emission control                                                        *)
(***************************************************************************)
run_autostart ==
    /\ Running("run_autostart")
    /\ CASE Top.pc = 0 -> Call("is_interlock_open", NoArgs, 1)
         [] Top.pc = 1 ->
              IF ret.n /= 0
              THEN Raise("RuntimeError", "Could not turn on laser diode")
              ELSE SendCall(Cmd("@cob1"), 2)
         [] Top.pc = 2 ->
              IF ret /= OK
              THEN Raise("RuntimeError", "Unable to autostart Cobolt laser")
              ELSE Call("get_on_off_state", NoArgs, 3)
         [] OTHER ->
              IF ret /= StrV("ON") THEN Raise("AssertionError", "ON")
              ELSE Return(NoneV)
    /\ Plain

\* turn_on that reads the interlock but enables whatever it says
turn_on_IgnoringInterlock ==
    /\ Running("turn_on")
    /\ CASE Top.pc = 0 -> Call("is_interlock_open", NoArgs, 1)
         [] Top.pc = 1 -> SendCall(Cmd("l1"), 2)
         [] Top.pc = 2 ->
              IF ret /= OK
              THEN Raise("RuntimeError", "Could not turn on laser diode")
              ELSE Call("get_on_off_state", NoArgs, 3)
         [] OTHER ->
              IF ret /= StrV("ON") THEN Raise("AssertionError", "ON")
              ELSE Return(NoneV)
    /\ Plain

turn_on ==
    /\ Running("turn_on")
    /\ CASE Top.pc = 0 -> Call("is_interlock_open", NoArgs, 1)
         [] Top.pc = 1 ->
              IF ret.n /= 0
              THEN Raise("RuntimeError", "Could not turn on laser diode")
              ELSE SendCall(Cmd("l1"), 2)
         [] Top.pc = 2 ->
              IF ret /= OK
              THEN Raise("RuntimeError", "Could not turn on laser diode")
              ELSE Call("get_on_off_state", NoArgs, 3)
         [] OTHER ->
              IF ret /= StrV("ON") THEN Raise("AssertionError", "ON")
              ELSE Return(NoneV)
    /\ Plain

\* turn_off whose confirmation was copied from turn_on
turn_off_ExpectingOn ==
    /\ Running("turn_off")
    /\ CASE Top.pc = 0 -> SendCall(Cmd("l0"), 1)
         [] Top.pc = 1 ->
              IF ret /= OK
              THEN Raise("RuntimeError", "Could not disable laser emission")
              ELSE Call("get_on_off_state", NoArgs, 2)
         [] OTHER ->
              IF ret /= StrV("ON") THEN Raise("AssertionError", "OFF")
              ELSE Return(NoneV)
    /\ Plain

turn_off ==
    /\ Running("turn_off")
    /\ CASE Top.pc = 0 -> SendCall(Cmd("l0"), 1)
         [] Top.pc = 1 ->
              IF ret /= OK
              THEN Raise("RuntimeError", "Could not disable laser emission")
              ELSE Call("get_on_off_state", NoArgs, 2)
         [] OTHER ->
              IF ret /= StrV("OFF") THEN Raise("AssertionError", "OFF")
              ELSE Return(NoneV)
    /\ Plain

\* close that releases the port without turning the diode off
close_WithoutTurnOff ==
    /\ Running("close")
    /\ port' = "closed"
    /\ Return(NoneV)
    /\ UNCHANGED <<Obj, prev, dev0>>

close ==
    /\ Running("close")
    /\ CASE Top.pc = 0 ->
              /\ Call("turn_off", NoArgs, 1)
              /\ UNCHANGED port
         [] OTHER ->
              /\ port' = "closed"
              /\ Return(NoneV)
    /\ UNCHANGED <<Obj, prev, dev0>>

(***************************************************************************)
(* Mode and modulation flags                                               *)
(***************************************************************************)
\* mode2command
HasCommand(mode) == mode \in {"continuous", "modulation"}
mode2command(mode) == IF mode = "continuous" THEN "cp" ELSE "em"

\* text[1:] of the state names and mode names
Slice1(text) ==
    CASE text = "Off" -> "ff"
      [] text = "Waiting for key" -> "aiting for key"
      [] text = "Continuous" -> "ontinuous"
      [] text = "On/Off Modulation" -> "n/Off Modulation"
      [] text = "Modulation" -> "odulation"
      [] text = "Fault" -> "ault"
      [] text = "Aborted" -> "borted"
      [] text = "continuous" -> "ontinuous"
      [] text = "modulation" -> "odulation"
      [] OTHER -> text

\* set_mode that asks for the state whether or not the laser is emitting
set_mode_AlwaysConfirming ==
    /\ Running("set_mode")
    /\ CASE Top.pc = 0 ->
              IF ~HasCommand(Top.arg.mode) THEN Raise("AssertionError", "mode")
              ELSE SendCall(Cmd(mode2command(Top.arg.mode)), 1)
         [] Top.pc = 1 ->
              IF ret /= OK
              THEN Raise("RuntimeError", "Unable to set mode on Cobolt laser")
              ELSE Call("get_on_off_state", NoArgs, 2)
         [] Top.pc = 2 -> Call("get_state", NoArgs, 3)
         [] OTHER ->
              IF Slice1(ret.s) /= Slice1(Top.arg.mode)
              THEN Raise("AssertionError", "state")
              ELSE Return(NoneV)
    /\ Plain

set_mode ==
    /\ Running("set_mode")
    /\ CASE Top.pc = 0 ->
              IF ~HasCommand(Top.arg.mode) THEN Raise("AssertionError", "mode")
              ELSE SendCall(Cmd(mode2command(Top.arg.mode)), 1)
         [] Top.pc = 1 ->
              IF ret /= OK
              THEN Raise("RuntimeError", "Unable to set mode on Cobolt laser")
              ELSE Call("get_on_off_state", NoArgs, 2)
         [] Top.pc = 2 ->
              IF ret = StrV("ON") THEN Call("get_state", NoArgs, 3)
              ELSE Return(NoneV)
         [] OTHER ->
              IF Slice1(ret.s) /= Slice1(Top.arg.mode)
              THEN Raise("AssertionError", "state")
              ELSE Return(NoneV)
    /\ Plain

\* set_digital_modulation_enable_state that reads the flag back but does
\* not compare it
set_digital_modulation_enable_state_Unconfirmed ==
    /\ Running("set_digital_modulation_enable_state")
    /\ CASE Top.pc = 0 ->
              IF Top.arg.enabled \notin {0, 1}
              THEN Raise("AssertionError", "enabled")
              ELSE SendCall(CmdArg("sdmes", Top.arg.enabled, 0), 1)
         [] Top.pc = 1 ->
              IF ret /= OK
              THEN Raise("RuntimeError", "Unable to change digital modulation")
              ELSE Call("get_digital_modulation_enable_state", NoArgs, 2)
         [] OTHER -> Return(NoneV)
    /\ Plain

set_digital_modulation_enable_state ==
    /\ Running("set_digital_modulation_enable_state")
    /\ CASE Top.pc = 0 ->
              IF Top.arg.enabled \notin {0, 1}
              THEN Raise("AssertionError", "enabled")
              ELSE SendCall(CmdArg("sdmes", Top.arg.enabled, 0), 1)
         [] Top.pc = 1 ->
              IF ret /= OK
              THEN Raise("RuntimeError", "Unable to change digital modulation")
              ELSE Call("get_digital_modulation_enable_state", NoArgs, 2)
         [] OTHER ->
              IF Top.arg.enabled /= ret.n THEN Raise("AssertionError", "enabled")
              ELSE Return(NoneV)
    /\ Plain

set_analog_modulation_enable_state ==
    /\ Running("set_analog_modulation_enable_state")
    /\ CASE Top.pc = 0 ->
              IF Top.arg.enabled \notin {0, 1}
              THEN Raise("AssertionError", "enabled")
              ELSE SendCall(CmdArg("sames", Top.arg.enabled, 0), 1)
         [] Top.pc = 1 ->
              IF ret /= OK
              THEN Raise("RuntimeError", "Unable to change analog modulation")
              ELSE Call("get_analog_modulation_enable_state", NoArgs, 2)
         [] OTHER ->
              IF Top.arg.enabled /= ret.n THEN Raise("AssertionError", "enabled")
              ELSE Return(NoneV)
    /\ Plain

(***************************************************************************)
(* Power set points                                                        *)
(***************************************************************************)
\* 0 < power_mW <= self.max_power_mW
InRange(power_mW) == 0 < power_mW /\ power_mW <= max_power_mW * Scale

\* set_power_setpoint without the range check
set_power_setpoint_Unchecked ==
    /\ Running("set_power_setpoint")
    /\ CASE Top.pc = 0 ->
              SendCall(CmdArg("p", Fmt(Top.arg.power_mW, 1000, 4), 4), 1)
         [] Top.pc = 1 ->
              IF ret /= OK
              THEN Raise("RuntimeError", "Unable to update power on laser")
              ELSE Call("get_power_setpoint", NoArgs, 2)
         [] OTHER ->
              IF Round4(Top.arg.power_mW) /= Round4(ret.n)
              THEN Raise("AssertionError", "round")
              ELSE Return(NoneV)
    /\ Plain

set_power_setpoint ==
    /\ Running("set_power_setpoint")
    /\ CASE Top.pc = 0 ->
              IF ~InRange(Top.arg.power_mW)
              THEN Raise("AssertionError", "power_mW")
              ELSE \* 'p %0.4f' % (power_mW / 1000)
                   SendCall(CmdArg("p", Fmt(Top.arg.power_mW, 1000, 4), 4), 1)
         [] Top.pc = 1 ->
              IF ret /= OK
              THEN Raise("RuntimeError", "Unable to update power on laser")
              ELSE Call("get_power_setpoint", NoArgs, 2)
         [] OTHER ->
              IF Round4(Top.arg.power_mW) /= Round4(ret.n)
              THEN Raise("AssertionError", "round")
              ELSE Return(NoneV)
    /\ Plain

\* set_modulation_power_setpoint that goes on to the read-back whatever the
\* acknowledgement
set_modulation_power_setpoint_IgnoringAnswer ==
    /\ Running("set_modulation_power_setpoint")
    /\ CASE Top.pc = 0 ->
              IF ~InRange(Top.arg.power_mW)
              THEN Raise("AssertionError", "power_mW")
              ELSE SendCall(CmdArg("slmp", Fmt(Top.arg.power_mW, 1, 1), 1), 1)
         [] Top.pc = 1 -> Call("get_modulation_power_setpoint", NoArgs, 2)
         [] OTHER ->
              IF Round4(Top.arg.power_mW) /= Round4(ret.n)
              THEN Raise("AssertionError", "round")
              ELSE Return(NoneV)
    /\ Plain

\* set_modulation_power_setpoint that reads back the constant-power set
\* point
set_modulation_power_setpoint_ConfirmingContinuous ==
    /\ Running("set_modulation_power_setpoint")
    /\ CASE Top.pc = 0 ->
              IF ~InRange(Top.arg.power_mW)
              THEN Raise("AssertionError", "power_mW")
              ELSE SendCall(CmdArg("slmp", Fmt(Top.arg.power_mW, 1, 1), 1), 1)
         [] Top.pc = 1 ->
              IF ret /= OK
              THEN Raise("RuntimeError", "Unable to update power on laser")
              ELSE Call("get_power_setpoint", NoArgs, 2)
         [] OTHER ->
              IF Round4(Top.arg.power_mW) /= Round4(ret.n)
              THEN Raise("AssertionError", "round")
              ELSE Return(NoneV)
    /\ Plain

set_modulation_power_setpoint ==
    /\ Running("set_modulation_power_setpoint")
    /\ CASE Top.pc = 0 ->
              IF ~InRange(Top.arg.power_mW)
              THEN Raise("AssertionError", "power_mW")
              ELSE \* 'slmp %0.1f' % power_mW
                   SendCall(CmdArg("slmp", Fmt(Top.arg.power_mW, 1, 1), 1), 1)
         [] Top.pc = 1 ->
              IF ret /= OK
              THEN Raise("RuntimeError", "Unable to update power on laser")
              ELSE Call("get_modulation_power_setpoint", NoArgs, 2)
         [] OTHER ->
              IF Round4(Top.arg.power_mW) /= Round4(ret.n)
              THEN Raise("AssertionError", "round")
              ELSE Return(NoneV)
    /\ Plain

(***************************************************************************)
(* configure: flags, then the set point of the target mode, then the mode  *)
(***************************************************************************)
ConfigureMode == Call("set_mode", [NoArgs EXCEPT !.mode = Top.arg.mode], 4)

ConfigurePower ==
    IF Top.arg.mode = "continuous"
    THEN Call("set_power_setpoint",
              [NoArgs EXCEPT !.power_mW = Top.arg.power_mW], 3)
    ELSE IF Top.arg.mode = "modulation"
    THEN Call("set_modulation_power_setpoint",
              [NoArgs EXCEPT !.power_mW = Top.arg.power_mW], 3)
    ELSE ConfigureMode

ConfigureAnalog ==
    IF Top.arg.analog_mod_enabled /= None
    THEN Call("set_analog_modulation_enable_state",
              [NoArgs EXCEPT !.enabled = Top.arg.analog_mod_enabled], 2)
    ELSE ConfigurePower

ConfigureDigital ==
    IF Top.arg.digital_mod_enabled /= None
    THEN Call("set_digital_modulation_enable_state",
              [NoArgs EXCEPT !.enabled = Top.arg.digital_mod_enabled], 1)
    ELSE ConfigureAnalog

\* configure that switches the mode before it writes the set point
configure_ModeBeforePower ==
    /\ Running("configure")
    /\ CASE Top.pc = 0 -> ConfigureDigital
         [] Top.pc = 1 -> ConfigureAnalog
         [] Top.pc = 2 ->
              Call("set_mode", [NoArgs EXCEPT !.mode = Top.arg.mode], 3)
         [] Top.pc = 3 ->
              Call(IF Top.arg.mode = "continuous" THEN "set_power_setpoint"
                   ELSE "set_modulation_power_setpoint",
                   [NoArgs EXCEPT !.power_mW = Top.arg.power_mW], 4)
         [] OTHER -> Return(NoneV)
    /\ Plain

configure ==
    /\ Running("configure")
    /\ CASE Top.pc = 0 -> ConfigureDigital
         [] Top.pc = 1 -> ConfigureAnalog
         [] Top.pc = 2 -> ConfigurePower
         [] Top.pc = 3 -> ConfigureMode
         [] OTHER -> Return(NoneV)
    /\ Plain

(***************************************************************************)
(* Construction                                                            *)
(***************************************************************************)
\* the port the device is attached to, and one nothing is attached to
DevicePort == "COM8"
Ports == {"COM8", "COM9"}

\* __init__ that reads the model number but takes the power field from
\* whatever laser answered
__init__AcceptingAnyLaser ==
    /\ Running("__init__")
    /\ CASE Top.pc = 0 ->
              /\ verbose' = Top.arg.verbose
              /\ very_verbose' = Top.arg.very_verbose
              /\ w' = Top.arg.wavelength_nm
              /\ IF Top.arg.which_port /= DevicePort \/ port = "open"
                 THEN /\ Raise("IOError", "No connection to laser on port")
                      /\ UNCHANGED port
                 ELSE /\ port' = "open"
                      /\ Call("get_model_number", NoArgs, 1)
              /\ UNCHANGED max_power_mW
         [] OTHER ->
              /\ IF ret.k /= "mn" \/ ret.n = None
                 THEN /\ Raise("ValueError", "int(fields[0])")
                      /\ UNCHANGED max_power_mW
                 ELSE IF ret.d = None
                 THEN /\ Raise("IndexError", "fields[3]")
                      /\ UNCHANGED max_power_mW
                 ELSE /\ max_power_mW' = ret.d
                      /\ Return(NoneV)
              /\ UNCHANGED <<verbose, very_verbose, w, port>>
    /\ UNCHANGED <<prev, dev0>>

__init__ ==
    /\ Running("__init__")
    /\ CASE Top.pc = 0 ->
              /\ verbose' = Top.arg.verbose
              /\ very_verbose' = Top.arg.very_verbose
              /\ w' = Top.arg.wavelength_nm
              /\ IF Top.arg.which_port /= DevicePort \/ port = "open"
                 THEN \* serial.serialutil.SerialException
                      /\ Raise("IOError", "No connection to laser on port")
                      /\ UNCHANGED port
                 ELSE /\ port' = "open"
                      /\ Call("get_model_number", NoArgs, 1)
              /\ UNCHANGED max_power_mW
         [] OTHER ->
              \* fields = mn.split('-')
              /\ IF ret.k /= "mn" \/ ret.n = None
                 THEN /\ Raise("ValueError", "int(fields[0])")
                      /\ UNCHANGED max_power_mW
                 ELSE IF Top.arg.wavelength_nm /= ret.n
                 THEN /\ Raise("AssertionError", "wavelength_nm")
                      /\ UNCHANGED max_power_mW
                 ELSE IF ret.d = None
                 THEN /\ Raise("IndexError", "fields[3]")
                      /\ UNCHANGED max_power_mW
                 ELSE /\ max_power_mW' = ret.d
                      /\ Return(NoneV)
              /\ UNCHANGED <<verbose, very_verbose, w, port>>
    /\ UNCHANGED <<prev, dev0>>

(***************************************************************************)
(* The caller                                                              *)
(***************************************************************************)
Modes == {"continuous", "modulation", "pulsed"}
\* True, False, and a value that is neither
Flags == {0, 1, 2}
\* -1, 0, 1.23, 1.99996, 2 and 3 mW
Powers == {-Scale, 0, 123 * 10^3, 2 * Scale - 4, 2 * Scale, 3 * Scale}
\* configure(mode, power_mW, digital_mod_enabled, analog_mod_enabled)
ConfigureArgs ==
    {<<"continuous", 2 * Scale, None, None>>,
     <<"continuous", 123 * 10^3, None, 1>>,
     <<"continuous", 2 * Scale, 0, 1>>,
     <<"modulation", 2 * Scale, 1, 0>>,
     <<"modulation", 2 * Scale, 0, 1>>,
     <<"modulation", 3 * Scale, 1, None>>,
     <<"modulation", 123 * 10^3, None, None>>,
     <<"pulsed", 2 * Scale, 1, 0>>,
     <<"pulsed", 2 * Scale, None, None>>}
Wavelengths == {785, 660}
\* (verbose, very_verbose): the defaults, everything, nothing
Logging == {<<TRUE, FALSE>>, <<TRUE, TRUE>>, <<FALSE, FALSE>>}

Getters == {"get_on_off_state", "get_state", "is_interlock_open",
            "get_digital_modulation_enable_state",
            "get_analog_modulation_enable_state",
            "get_power_setpoint", "get_modulation_power_setpoint",
            "get_model_number", "get_fault"}

Calls ==
    {[op |-> o, arg |-> NoArgs] :
        o \in Getters \cup {"run_autostart", "turn_on", "turn_off", "close"}}
    \cup {[op |-> "set_mode", arg |-> [NoArgs EXCEPT !.mode = m]] : m \in Modes}
    \cup {[op |-> o, arg |-> [NoArgs EXCEPT !.enabled = e]] :
            o \in {"set_digital_modulation_enable_state",
                   "set_analog_modulation_enable_state"}, e \in Flags}
    \cup {[op |-> o, arg |-> [NoArgs EXCEPT !.power_mW = x]] :
            o \in {"set_power_setpoint", "set_modulation_power_setpoint"},
            x \in Powers}
    \cup {[op |-> "configure",
           arg |-> [NoArgs EXCEPT !.mode = m, !.power_mW = x,
                                  !.digital_mod_enabled = dg,
                                  !.analog_mod_enabled = an]] :
            <<m, x, dg, an>> \in ConfigureArgs}

NoCall == [op |-> "", arg |-> NoArgs, status |-> "none", exc |-> "",
           msg |-> "", value |-> NoneV]

\* what a later claim needs of the call before: a successful turn_off or
\* flag setter, with its flag
Remember(c) ==
    IF c.status = "returned" /\
       c.op \in {"turn_off", "set_digital_modulation_enable_state",
                 "set_analog_modulation_enable_state"}
    THEN [op |-> c.op, enabled |-> c.arg.enabled]
    ELSE [op |-> "", enabled |-> None]

Ready == call.op /= "" /\ (call.op = "__init__" => call.status = "returned")

\* laser = Laser(which_port, wavelength_nm, verbose, very_verbose)
New ==
    /\ stack = <<>>
    /\ ~Ready \/ port = "closed"
    /\ \E wp \in Ports, wl \in Wavelengths, <<v, vv>> \in Logging :
          /\ stack' = <<Frame("__init__",
                              [which_port |-> wp, wavelength_nm |-> wl,
                               verbose |-> v, very_verbose |-> vv])>>
          /\ call' = [NoCall EXCEPT !.op = "__init__", !.status = "running"]
    /\ prev' = Remember(NoCall)
    /\ log' = <<>>
    /\ dev0' = dev
    /\ UNCHANGED <<Obj, port, rx, dev, ret>>

\* laser.<op>(<arg>)
Invoke ==
    /\ stack = <<>>
    /\ Ready
    /\ \E c \in Calls :
          /\ stack' = <<Frame(c.op, c.arg)>>
          /\ call' = [NoCall EXCEPT !.op = c.op, !.arg = c.arg,
                                    !.status = "running"]
    /\ prev' = Remember(call)
    /\ log' = <<>>
    /\ dev0' = dev
    /\ UNCHANGED <<Obj, port, rx, dev, ret>>

Init ==
    /\ port = "none"
    /\ verbose = TRUE
    /\ very_verbose = FALSE
    /\ w = 0
    /\ max_power_mW = 0
    /\ stack = <<>>
    /\ ret = NoneV
    /\ call = NoCall
    /\ prev = Remember(NoCall)
    /\ log = <<>>
    /\ rx = <<>>
    /\ dev = DevInit
    /\ dev0 = DevInit

Next ==
    \/ New
    \/ Invoke
    \/ __init__
    \/ _send
    \/ configure
    \/ get_on_off_state
    \/ run_autostart
    \/ turn_on
    \/ turn_off
    \/ get_state
    \/ set_mode
    \/ get_digital_modulation_enable_state
    \/ set_digital_modulation_enable_state
    \/ get_analog_modulation_enable_state
    \/ set_analog_modulation_enable_state
    \/ get_power_setpoint
    \/ set_power_setpoint
    \/ get_modulation_power_setpoint
    \/ set_modulation_power_setpoint
    \/ get_model_number
    \/ get_fault
    \/ is_interlock_open
    \/ close

Spec == Init /\ [][Next]_vars

\* the interpreter keeps running the call in progress: a step of it that
\* stays possible is eventually taken
Runs == stack /= <<>> /\ Next
FairSpec == Spec /\ WF_vars(Runs)

(***************************************************************************)
(* Vocabulary of the properties                                            *)
(***************************************************************************)
Idle == stack = <<>>
Succeeded == call.status = "returned"
Failed == call.status = "raised"
\* no transaction of the call was cut short by the pending-bytes check
Framed == call.msg /= "in_waiting"
\* transaction i of the call wrote command c
Wrote(i, c) == i <= Len(log) /\ log[i].cmd = c
\* transaction i of the call wrote command c and read response r
Exchanged(i, c, r) == Wrote(i, c) /\ log[i].resp = r
Commands == [i \in 1..Len(log) |-> log[i].cmd]
IsPrefix(s, t) == Len(s) <= Len(t) /\ s = SubSeq(t, 1, Len(s))

(***************************************************************************)
(* C1.  An emission-enabling command ('l1', '@cob1') is written only       *)
(* directly after an 'ilk?' transaction of the same call that answered 0;  *)
(* when 'ilk?' answers 1 in turn_on or run_autostart, that transaction is  *)
(* the call's last and the call does not succeed.                          *)
(***************************************************************************)
C1_EnableOnlyAfterClosedInterlock ==
    \A i \in 1..Len(log) :
        /\ log[i].cmd.name \in {"l1", "@cob1"} =>
              i > 1 /\ Exchanged(i - 1, Cmd("ilk?"), Num(0, 0))
        /\ ( /\ call.op \in {"turn_on", "run_autostart"}
             /\ Exchanged(i, Cmd("ilk?"), Num(1, 0)) ) =>
              /\ i = Len(log)
              /\ ~Succeeded
              /\ Idle => Failed

\* turn_on wrote 'l1' after a closed interlock and went through
C1_Witness ==
    /\ call.op = "turn_on" /\ Succeeded
    /\ Exchanged(1, Cmd("ilk?"), Num(0, 0))
    /\ Exchanged(2, Cmd("l1"), OK)

\* run_autostart stopped at an open interlock
C1_WitnessOpen ==
    /\ call.op = "run_autostart" /\ Failed /\ Idle
    /\ Exchanged(1, Cmd("ilk?"), Num(1, 0))

(***************************************************************************)
(* C2.  In a configure call with a valid mode the commands reach the       *)
(* transport in the order: digital flag and its read-back, analog flag     *)
(* and its read-back (each only if supplied), the set point of the target  *)
(* mode and its read-back, the mode command, then the emission and state   *)
(* queries; and every transaction that is followed by another one was      *)
(* acknowledged with 'OK', or was a read-back that confirmed the request.  *)
(***************************************************************************)
FlagScript(set, get, v) ==
    IF v = None THEN <<>> ELSE <<CmdArg(set, v, 0), Cmd(get)>>

PowerScript(mode, power_mW) ==
    IF mode = "continuous"
    THEN <<CmdArg("p", Fmt(power_mW, 1000, 4), 4), Cmd("p?")>>
    ELSE <<CmdArg("slmp", Fmt(power_mW, 1, 1), 1), Cmd("glmp?")>>

ConfigureScript(a) ==
    FlagScript("sdmes", "gdmes?", a.digital_mod_enabled)
      \o FlagScript("sames", "games?", a.analog_mod_enabled)
      \o PowerScript(a.mode, a.power_mW)
      \o <<Cmd(mode2command(a.mode)), Cmd("l?"), Cmd("gom?")>>

\* transaction i of a call with arguments a went well
Confirms(a, i) ==
    LET c == log[i].cmd
        r == log[i].resp
    IN CASE c.name \in {"sdmes", "sames", "p", "slmp", "cp", "em"} -> r = OK
         [] c.name = "gdmes?" -> r = Num(a.digital_mod_enabled, 0)
         [] c.name = "games?" -> r = Num(a.analog_mod_enabled, 0)
         [] c.name = "p?" ->
              IsFloat(r) /\ Round4(FloatOf(r) * 1000) = Round4(a.power_mW)
         [] c.name = "glmp?" ->
              IsFloat(r) /\ Round4(FloatOf(r)) = Round4(a.power_mW)
         [] c.name = "l?" -> r = Num(1, 0)
         [] OTHER -> TRUE

C2_ConfigureOrder ==
    (call.op = "configure" /\ HasCommand(call.arg.mode)) =>
        /\ IsPrefix(Commands, ConfigureScript(call.arg))
        /\ \A i \in 1..(Len(log) - 1) : Confirms(call.arg, i)

\* configure(mode='modulation', power_mW=2, digital_mod_enabled=True,
\* analog_mod_enabled=False) went through all nine transactions
C2_Witness ==
    /\ call.op = "configure" /\ Succeeded
    /\ call.arg.mode = "modulation" /\ call.arg.digital_mod_enabled = 1
    /\ call.arg.analog_mod_enabled = 0
    /\ Len(log) = 9
    /\ Wrote(7, Cmd("em"))

(***************************************************************************)
(* C3.  The port is released only by close(), and only after its           *)
(* turn_off() was acknowledged with 'OK' and 'l?' reported 0; when         *)
(* turn_off() fails inside close() (command not acknowledged, or emission  *)
(* still reported on) close() does not succeed and the port stays open.    *)
(***************************************************************************)
TurnedOff ==
    /\ Len(log) = 2
    /\ Exchanged(1, Cmd("l0"), OK)
    /\ Exchanged(2, Cmd("l?"), Num(0, 0))

TurnOffFailed ==
    \/ Wrote(1, Cmd("l0")) /\ log[1].resp \notin {OK, Pending}
    \/ Wrote(2, Cmd("l?")) /\ log[2].resp \notin {Num(0, 0), Pending}

C3_CloseOnlyAfterOff ==
    /\ [][(port = "open" /\ port' /= "open") =>
             (call.op = "close" /\ TurnedOff /\ Framed /\ port' = "closed")]_vars
    /\ []((call.op = "close" /\ TurnOffFailed) =>
             (port = "open" /\ ~Succeeded /\ (Idle => Failed)))

\* close() released the port after a confirmed turn_off()
C3_Witness == call.op = "close" /\ Succeeded /\ port = "closed" /\ TurnedOff

(***************************************************************************)
(* C4.  With default logging, when set_mode's command was acknowledged,    *)
(* 'l?' reported emission on and 'gom?' reported a known state, set_mode   *)
(* succeeds exactly when that state is in the category of the requested    *)
(* mode: Continuous for 'continuous', Modulation or On/Off Modulation for  *)
(* 'modulation'.                                                           *)
(***************************************************************************)
InCategory(mode, code) ==
    \/ mode = "continuous" /\ code = 2
    \/ mode = "modulation" /\ code \in {3, 4}

ModeConfirmedBy(code) ==
    /\ call.op = "set_mode" /\ Idle /\ Framed /\ ~very_verbose
    /\ Len(log) = 3
    /\ Exchanged(1, Cmd(mode2command(call.arg.mode)), OK)
    /\ Exchanged(2, Cmd("l?"), Num(1, 0))
    /\ Exchanged(3, Cmd("gom?"), Num(code, 0))

C4_SetModeConfirmsCategory ==
    \A code \in 0..6 :
        ModeConfirmedBy(code) => (Succeeded <=> InCategory(call.arg.mode, code))

(***************************************************************************)
(* C5.  Once a mode command was acknowledged and the following 'l?'        *)
(* reported 0, that was the last transaction of the call: no 'gom?' is     *)
(* issued, and unless the transport held stray bytes the call succeeds.    *)
(***************************************************************************)
C5_NoConfirmationWhileOff ==
    \A i \in 1..Len(log) :
        ( /\ log[i].cmd.name \in {"cp", "em"} /\ log[i].resp = OK
          /\ Exchanged(i + 1, Cmd("l?"), Num(0, 0)) ) =>
            /\ Len(log) = i + 1
            /\ Framed => (~Failed /\ (Idle => Succeeded))

\* set_mode('modulation') went through although the device is not emitting
C5_Witness ==
    /\ call.op = "set_mode" /\ call.arg.mode = "modulation"
    /\ Succeeded /\ dev.emission = 0
    /\ Exchanged(1, Cmd("em"), OK)
    /\ Exchanged(2, Cmd("l?"), Num(0, 0))

(***************************************************************************)
(* C6.  set_power_setpoint and set_modulation_power_setpoint called with   *)
(* power_mW <= 0 or power_mW > max_power_mW write nothing, leave the       *)
(* device as it was, and fail.                                             *)
(***************************************************************************)
PowerSetters == {"set_power_setpoint", "set_modulation_power_setpoint"}

C6_RangeCheckedBeforeWrite ==
    ( /\ call.op \in PowerSetters
      /\ call.arg.power_mW <= 0 \/ call.arg.power_mW > max_power_mW * Scale ) =>
        /\ log = <<>>
        /\ dev = dev0
        /\ ~Succeeded
        /\ Idle => (Failed /\ call.exc = "AssertionError")

\* set_power_setpoint(3) on the 2 mW laser was refused
C6_Witness ==
    /\ call.op = "set_power_setpoint" /\ call.arg.power_mW = 3 * Scale
    /\ port = "open" /\ Idle /\ Failed

\* set_modulation_power_setpoint(0) was refused
C6_WitnessZero ==
    /\ call.op = "set_modulation_power_setpoint" /\ call.arg.power_mW = 0
    /\ port = "open" /\ Idle /\ Failed

(***************************************************************************)
(* C7.  For every valid power_mW, when the device acknowledges the set     *)
(* command, stores the value written on the wire and reads it back         *)
(* unchanged, the power setter succeeds and the value read back is within  *)
(* 1e-4 mW of power_mW.                                                    *)
(***************************************************************************)
\* the device stored what the call wrote and read it back
StoredAsWritten ==
    /\ Idle /\ Framed /\ Len(log) = 2 /\ log[1].resp = OK
    /\ \/ /\ call.op = "set_power_setpoint"
          /\ log[1].cmd.name = "p" /\ dev.p = log[1].cmd.n
          /\ Exchanged(2, Cmd("p?"), Num(dev.p, 4))
       \/ /\ call.op = "set_modulation_power_setpoint"
          /\ log[1].cmd.name = "slmp" /\ dev.lmp = log[1].cmd.n
          /\ Exchanged(2, Cmd("glmp?"), Num(dev.lmp, 1))

\* the set point the device now reports, in mW
ReadBack ==
    IF call.op = "set_power_setpoint" THEN FloatOf(log[2].resp) * 1000
    ELSE FloatOf(log[2].resp)

\* |x - y| < 1e-4
Within1e4(x, y) == x - y < 10 /\ y - x < 10

C7_PowerRoundTrip ==
    (call.op \in PowerSetters /\ InRange(call.arg.power_mW) /\ StoredAsWritten)
        => (Succeeded /\ Within1e4(ReadBack, call.arg.power_mW))

(***************************************************************************)
(* C8.  A flag getter that succeeds directly after a successful setter of  *)
(* the same flag returns the value that was set; and a flag setter writes  *)
(* only its own flag's commands and leaves the other flag of the device    *)
(* as it was.                                                              *)
(***************************************************************************)
C8_FlagRoundTrip ==
    /\ ( /\ call.op = "get_digital_modulation_enable_state" /\ Succeeded
         /\ prev.op = "set_digital_modulation_enable_state" ) =>
            call.value = IntV(prev.enabled)
    /\ ( /\ call.op = "get_analog_modulation_enable_state" /\ Succeeded
         /\ prev.op = "set_analog_modulation_enable_state" ) =>
            call.value = IntV(prev.enabled)
    /\ call.op = "set_digital_modulation_enable_state" =>
          /\ dev.ames = dev0.ames
          /\ \A i \in 1..Len(log) : log[i].cmd.name \in {"sdmes", "gdmes?"}
    /\ call.op = "set_analog_modulation_enable_state" =>
          /\ dev.dmes = dev0.dmes
          /\ \A i \in 1..Len(log) : log[i].cmd.name \in {"sames", "games?"}

\* get_digital_modulation_enable_state() returned False right after
\* set_digital_modulation_enable_state(False)
C8_Witness ==
    /\ call.op = "get_digital_modulation_enable_state" /\ Succeeded
    /\ prev.op = "set_digital_modulation_enable_state" /\ prev.enabled = 0
    /\ call.value = IntV(0)

(***************************************************************************)
(* C9.  Every setter validates, writes its command, requires 'OK', issues  *)
(* the matching getter and compares: invalid input writes nothing, an      *)
(* acknowledgement other than 'OK' ends the call without the read-back,    *)
(* and the setter succeeds only if the value read back equals the value    *)
(* requested.                                                              *)
(***************************************************************************)
Setters == PowerSetters \cup {"set_digital_modulation_enable_state",
                              "set_analog_modulation_enable_state"}

ValidInput ==
    IF call.op \in PowerSetters THEN InRange(call.arg.power_mW)
    ELSE call.arg.enabled \in {0, 1}

SetterScript ==
    CASE call.op = "set_power_setpoint" ->
              PowerScript("continuous", call.arg.power_mW)
      [] call.op = "set_modulation_power_setpoint" ->
              PowerScript("modulation", call.arg.power_mW)
      [] call.op = "set_digital_modulation_enable_state" ->
              FlagScript("sdmes", "gdmes?", call.arg.enabled)
      [] OTHER -> FlagScript("sames", "games?", call.arg.enabled)

\* the steps up to the comparison
SetterSteps ==
    /\ IF ValidInput THEN IsPrefix(Commands, SetterScript) ELSE log = <<>>
    /\ (Len(log) >= 1 /\ log[1].resp \notin {OK, Pending}) =>
          (Len(log) = 1 /\ ~Succeeded)
    /\ Succeeded => (Len(log) = 2 /\ log[1].resp = OK /\ IsFloat(log[2].resp))

C9_SetterStepsExact ==
    call.op \in Setters =>
        /\ SetterSteps
        /\ Succeeded =>
              IF call.op \in PowerSetters THEN ReadBack = call.arg.power_mW
              ELSE log[2].resp = Num(call.arg.enabled, 0)

(***************************************************************************)
(* C9, amended.  As above, except that a power setter succeeds only if     *)
(* the value read back equals the value requested once both are rounded    *)
(* to 4 decimals of a milliwatt; the flag setters compare exactly.         *)
(***************************************************************************)
C9_SetterStepsRounded ==
    call.op \in Setters =>
        /\ SetterSteps
        /\ Succeeded =>
              IF call.op \in PowerSetters
              THEN Round4(ReadBack) = Round4(call.arg.power_mW)
              ELSE log[2].resp = Num(call.arg.enabled, 0)

\* set_power_setpoint(1.99996) succeeded on a read-back of 2.0 mW
C9_Witness ==
    /\ call.op = "set_power_setpoint" /\ Succeeded
    /\ call.arg.power_mW = 2 * Scale - 4
    /\ Exchanged(1, CmdArg("p", 20, 4), OK)
    /\ Exchanged(2, Cmd("p?"), Num(20, 4))

(***************************************************************************)
(* C10.  Whenever the device acknowledges 'l0' and then reports emission   *)
(* off, turn_off() succeeds and the device is not emitting: also when the  *)
(* call before was itself a successful turn_off().                         *)
(***************************************************************************)
C10_TurnOffIdempotent ==
    (call.op = "turn_off" /\ Idle /\ Framed /\ TurnedOff) =>
        (Succeeded /\ dev.emission = 0)

\* a second turn_off() in a row succeeded with the diode already off
C10_Witness ==
    /\ call.op = "turn_off" /\ Succeeded /\ TurnedOff
    /\ prev.op = "turn_off" /\ dev0.emission = 0 /\ dev.emission = 0

(***************************************************************************)
(* C11.  During construction the only command written is 'glm?' and the    *)
(* device is left as it was; and when the model number read names another  *)
(* wavelength than the expected one, construction does not succeed.        *)
(***************************************************************************)
C11_MismatchWritesNothing ==
    call.op = "__init__" =>
        /\ \A i \in 1..Len(log) : i = 1 /\ log[i].cmd = Cmd("glm?")
        /\ dev = dev0
        /\ ( /\ Len(log) = 1
             /\ log[1].resp.k = "mn" /\ log[1].resp.n /= w ) =>
                /\ ~Succeeded
                /\ Idle => Failed

\* Laser('COM8', 660) against the 785 nm laser was refused after 'glm?'
C11_Witness ==
    /\ call.op = "__init__" /\ Idle /\ Failed /\ call.exc = "AssertionError"
    /\ w = 660
    /\ log = <<[cmd |-> Cmd("glm?"),
                resp |-> ModelNo(DeviceWavelength, DeviceMaxPower)]>>

(***************************************************************************)
(* C12.  Every transaction terminates: once _send has written its command  *)
(* it eventually returns the response or fails, whatever the device does.  *)
(***************************************************************************)
C12_TransactionTerminates == Running("_send") ~> ~Running("_send")

(***************************************************************************)
(* C13.  A command is written only when every earlier response of the call *)
(* has been read, and the one transaction without a response is the one    *)
(* _send is reading; and when bytes are left in the transport after a      *)
(* read, the call has failed on the pending-bytes assertion and the        *)
(* response was handed to nobody.                                          *)
(***************************************************************************)
C13_OneWriteOneRead ==
    /\ \A i \in 1..(Len(log) - 1) : log[i].resp /= Pending
    /\ Running("_send") <=> (log /= <<>> /\ log[Len(log)].resp = Pending)
    /\ (log /= <<>> /\ log[Len(log)].resp /= Pending /\ rx /= <<>>) =>
          /\ Idle /\ Failed
          /\ call.exc = "AssertionError" /\ call.msg = "in_waiting"
          /\ ret = NoneV /\ call.value = NoneV

\* turn_off() read 'OK' with stray bytes behind it, and failed
C13_Witness ==
    /\ call.op = "turn_off" /\ Failed /\ call.msg = "in_waiting"
    /\ log = <<[cmd |-> Cmd("l0"), resp |-> OK]>>
    /\ rx = <<Stray>>

(***************************************************************************)
(* C14.  get_fault() returns the fault decoded from the response: 'no      *)
(* errors' for 0, 'temperature error' for 1, 'interlock error' for 3,      *)
(* 'constant power time out' for 4.                                        *)
(***************************************************************************)
C14_GetFaultReturnsFault ==
    (call.op = "get_fault" /\ Succeeded) =>
        call.value = StrV(FaultName(log[1].resp.n))

(***************************************************************************)
(* C15.  When a status query is answered with anything but a code of its   *)
(* known set, that transaction is the last of the call and the call does   *)
(* not succeed.                                                            *)
(***************************************************************************)
QueryCodes(name) ==
    CASE name = "gom?" -> 0..6
      [] name = "f?" -> {0, 1, 3, 4}
      [] OTHER -> {0, 1}

C15_UnknownCodeFails ==
    \A i \in 1..Len(log) :
        LET c == log[i].cmd
            r == log[i].resp
        IN ( /\ c.name \in {"l?", "gom?", "gdmes?", "games?", "f?", "ilk?"}
             /\ r /= Pending
             /\ ~(IsInt(r) /\ r.n \in QueryCodes(c.name)) ) =>
                /\ i = Len(log)
                /\ ~Succeeded
                /\ Idle => Failed

\* get_state() refused a state code it does not know
C15_Witness ==
    /\ call.op = "get_state" /\ Idle /\ Failed
    /\ call.exc = "AssertionError" /\ call.msg = "code"
    /\ log = <<[cmd |-> Cmd("gom?"), resp |-> Num(BadCode, 0)]>>
    /\ rx = <<>>

(***************************************************************************)
(* C16.  A turn_on() that failed because the interlock was open, because   *)
(* 'l1' was not acknowledged, or because emission was not reported on      *)
(* afterwards, ends in an error that neither of the other two causes       *)
(* produces.                                                               *)
(***************************************************************************)
TurnOnCauses == {"interlock open", "rejected", "not confirmed"}

\* why the turn_on call failed, read from its transcript
TurnOnCause ==
    CASE Len(log) = 1 /\ Exchanged(1, Cmd("ilk?"), Num(1, 0)) ->
              "interlock open"
      [] Len(log) = 2 /\ Wrote(2, Cmd("l1")) /\ log[2].resp /= OK ->
              "rejected"
      [] Len(log) = 3 /\ Exchanged(3, Cmd("l?"), Num(0, 0)) ->
              "not confirmed"
      [] OTHER -> ""

\* the error turn_on raises for each cause
TurnOnError(cause) ==
    CASE cause = "interlock open" ->
              <<"RuntimeError", "Could not turn on laser diode">>
      [] cause = "rejected" ->
              <<"RuntimeError", "Could not turn on laser diode">>
      [] cause = "not confirmed" -> <<"AssertionError", "ON">>

C16_TurnOnFailuresDistinct ==
    (call.op = "turn_on" /\ Idle /\ Failed /\ Framed /\ TurnOnCause /= "") =>
        \A c \in TurnOnCauses \ {TurnOnCause} :
            <<call.exc, call.msg>> /= TurnOnError(c)

(***************************************************************************)
(* C17.  set_power_setpoint and configure(mode='continuous') write no      *)
(* 'slmp' or 'glmp?', follow an acknowledged 'p' with 'p?', and leave the  *)
(* device's modulation set point as it was; set_modulation_power_setpoint  *)
(* and configure(mode='modulation') write no 'p' or 'p?', follow an        *)
(* acknowledged 'slmp' with 'glmp?', and leave the continuous set point    *)
(* as it was.  A call that succeeded has made that read-back.              *)
(***************************************************************************)
Targets(op, mode) ==
    call.op = op \/ (call.op = "configure" /\ call.arg.mode = mode)

\* the call wrote set and get, and never the commands in others
Only(set, get, others) ==
    /\ \A i \in 1..Len(log) :
          /\ log[i].cmd.name \notin others
          /\ (log[i].cmd.name = set /\ i < Len(log)) =>
                (log[i].resp = OK /\ log[i + 1].cmd = Cmd(get))
    /\ Succeeded => \E i \in 1..Len(log) : log[i].cmd = Cmd(get)

Answered(op, codes) ==
    /\ call.op = op /\ Idle /\ Framed /\ Len(log) = 1
    /\ IsInt(log[1].resp) /\ log[1].resp.n \in codes

Transparent ==
    /\ Answered("get_state", 0..6) =>
          (Succeeded /\ call.value = StrV(StateName(log[1].resp.n)))
    /\ Answered("is_interlock_open", {0, 1}) =>
          (Succeeded /\ call.value = IntV(log[1].resp.n))
    /\ ( /\ call.op \in {"turn_on", "run_autostart"} /\ Idle /\ Framed
         /\ Exchanged(1, Cmd("ilk?"), Num(0, 0)) ) => Len(log) >= 2
    /\ ( /\ call.op = "set_mode" /\ Idle /\ Framed /\ Len(log) = 3
         /\ Exchanged(3, Cmd("gom?"),
                      Num(IF call.arg.mode = "continuous" THEN 2 ELSE 4, 0)) )
          => Succeeded

C18_LoggingIsTransparent == Transparent

\* the same, of the calls made with very_verbose off
C18_QuietIsTransparent == ~very_verbose => Transparent

(***************************************************************************)
(* C19.  A construction that failed on the model number it read (another   *)
(* wavelength, or text it cannot parse), that is after it had opened the   *)
(* port, has not left the port open.                                       *)
(***************************************************************************)
C19_FailedConnectReleasesPort ==
    (call.op = "__init__" /\ Idle /\ Failed /\ Framed /\ log /= <<>>) =>
        port /= "open"

(***************************************************************************)
(* C20.  configure called with a mode that is neither 'continuous' nor     *)
(* 'modulation' writes no command, leaves the device as it was, and        *)
(* fails.                                                                  *)
(***************************************************************************)
C20_InvalidModeWritesNothing ==
    (call.op = "configure" /\ ~HasCommand(call.arg.mode)) =>
        /\ log = <<>>
        /\ dev = dev0
        /\ ~Succeeded
        /\ Idle => Failed

\* the same, of the calls that supply neither flag
C20_InvalidModeWithoutFlags ==
    ( /\ call.op = "configure" /\ ~HasCommand(call.arg.mode)
      /\ call.arg.digital_mod_enabled = None
      /\ call.arg.analog_mod_enabled = None ) =>
        /\ log = <<>>
        /\ dev = dev0
        /\ ~Succeeded
        /\ Idle => Failed

====
